---- MODULE Spec2Model ----
(***************************************************************************)
(* Flight schedule parser and query tool (src/flight_parser.py).           *)
(*                                                                         *)
(* Python str values are TLA+ strings, taken apart with Len, Head, Tail,   *)
(* SubSeq and \o.  The modelled alphabet is printable ASCII plus the tab;  *)
(* the str methods below are the ASCII restriction of the Python ones.     *)
(***************************************************************************)
EXTENDS Integers, Sequences, FiniteSets, TLC

(***************************************************************************)
(* Characters and the str methods the program uses                         *)
(***************************************************************************)

\* Printable ASCII in code-point order, without the grave accent (code point
\* 96), which a TLA+ string cannot hold: AsciiLow holds code points 32..95 and
\* AsciiHigh 97..126.
AsciiLow ==
  " !\"#$%&'()*+,-./0123456789:;<=>?@ABCDEFGHIJKLMNOPQRSTUVWXYZ[\\]^_"

AsciiHigh == "abcdefghijklmnopqrstuvwxyz{|}~"

Digits == {"0", "1", "2", "3", "4", "5", "6", "7", "8", "9"}

UpperLetters == {"A", "B", "C", "D", "E", "F", "G", "H", "I", "J", "K", "L", "M",
                 "N", "O", "P", "Q", "R", "S", "T", "U", "V", "W", "X", "Y", "Z"}

LowerLetters == {"a", "b", "c", "d", "e", "f", "g", "h", "i", "j", "k", "l", "m",
                 "n", "o", "p", "q", "r", "s", "t", "u", "v", "w", "x", "y", "z"}

\* str.isspace() of one character.
Whitespace == {" ", "\t"}

\* s[i - 1] of Python: the i-th character (1-based) as a one-character string.
Char(s, i) == SubSeq(s, i, i)

\* ord(c) for a character of the alphabet (the tab is code point 9).
Ord(c) ==
  IF c = "\t" THEN 9
  ELSE IF \E i \in 1..Len(AsciiLow) : Char(AsciiLow, i) = c
       THEN 31 + (CHOOSE i \in 1..Len(AsciiLow) : Char(AsciiLow, i) = c)
       ELSE 96 + (CHOOSE i \in 1..Len(AsciiHigh) : Char(AsciiHigh, i) = c)

DigitVal(c) ==
  CASE c = "0" -> 0 [] c = "1" -> 1 [] c = "2" -> 2 [] c = "3" -> 3 [] c = "4" -> 4
    [] c = "5" -> 5 [] c = "6" -> 6 [] c = "7" -> 7 [] c = "8" -> 8 [] c = "9" -> 9

\* str.lower() of one character.
LowerChar(c) ==
  IF c \in UpperLetters THEN Char(AsciiHigh, Ord(c) - 64) ELSE c

RECURSIVE Lower(_)
Lower(s) == IF s = "" THEN "" ELSE LowerChar(Head(s)) \o Lower(Tail(s))

RECURSIVE LStrip(_)
LStrip(s) ==
  IF s # "" /\ Head(s) \in Whitespace THEN LStrip(Tail(s)) ELSE s

RECURSIVE RStrip(_)
RStrip(s) ==
  IF s # "" /\ Char(s, Len(s)) \in Whitespace
  THEN RStrip(SubSeq(s, 1, Len(s) - 1))
  ELSE s

\* str.strip()
Strip(s) == RStrip(LStrip(s))

AllChars(s, set) == \A i \in 1..Len(s) : Char(s, i) \in set

\* str.isalnum(), str.isalpha(): non-empty and every character in the class.
IsAlnum(s) == s # "" /\ AllChars(s, Digits \cup UpperLetters \cup LowerLetters)

IsAlpha(s) == s # "" /\ AllChars(s, UpperLetters \cup LowerLetters)

\* str.isupper(): at least one cased character and no lowercase one.
IsUpper(s) ==
  /\ \E i \in 1..Len(s) : Char(s, i) \in UpperLetters
  /\ \A i \in 1..Len(s) : Char(s, i) \notin LowerLetters

\* str.startswith / str.endswith
StartsWith(s, p) == Len(s) >= Len(p) /\ SubSeq(s, 1, Len(p)) = p

EndsWith(s, p) == Len(s) >= Len(p) /\ SubSeq(s, Len(s) - Len(p) + 1, Len(s)) = p

\* s < t for Python strings: lexicographic by code point.
RECURSIVE StrLess(_, _)
StrLess(s, t) ==
  IF t = "" THEN FALSE
  ELSE IF s = "" THEN TRUE
  ELSE IF Head(s) = Head(t) THEN StrLess(Tail(s), Tail(t))
  ELSE Ord(Head(s)) < Ord(Head(t))

\* str(n) for an int n >= 0.
RECURSIVE NatStr(_)
NatStr(n) ==
  IF n < 10 THEN Char("0123456789", n + 1)
  ELSE NatStr(n \div 10) \o Char("0123456789", (n % 10) + 1)

\* ", ".join(parts)
RECURSIVE Join(_)
Join(parts) ==
  IF Len(parts) = 0 THEN ""
  ELSE IF Len(parts) = 1 THEN parts[1]
  ELSE parts[1] \o ", " \o Join(Tail(parts))

(***************************************************************************)
(* datetime.strptime(s, DATETIME_FORMAT)                                   *)
(*                                                                         *)
(* _strptime turns the format into a regular expression, matches it at the *)
(* start of the string (first alternative that lets the rest match), then  *)
(* rejects unconverted trailing data and impossible dates.  `%Y` is four   *)
(* digits; `%m`, `%d`, `%H`, `%M` try their two-character alternatives     *)
(* before the one-character one; white space in the format is `\s+`.       *)
(***************************************************************************)
DATETIME_FORMAT == "%Y-%m-%d %H:%M"

\* The datetime a failed strptime leaves behind: none (ValueError raised).
NoDatetime == [ok |-> FALSE, Y |-> 0, m |-> 0, d |-> 0, H |-> 0, M |-> 0]

\* int(tok) for a token of digits, possibly behind white space.
RECURSIVE DigitsVal(_, _)
DigitsVal(tok, acc) ==
  IF tok = "" THEN acc
  ELSE IF Head(tok) \in Whitespace THEN DigitsVal(Tail(tok), acc)
  ELSE DigitsVal(Tail(tok), 10 * acc + DigitVal(Head(tok)))

\* Whether `tok` matches an alternative of the regular expression of
\* directive `c`: four digits for Y, one or two characters for the others.
DirectiveMatches(c, tok) ==
  LET a == Char(tok, 1)
      b == Char(tok, 2)
  IN  IF c = "Y" THEN Len(tok) = 4 /\ AllChars(tok, Digits)
      ELSE IF Len(tok) = 1
      THEN CASE c = "m" -> a \in Digits \ {"0"}
             [] c = "d" -> a \in Digits \ {"0"}
             [] c = "H" -> a \in Digits
             [] c = "M" -> a \in Digits
             [] OTHER -> FALSE
      ELSE CASE c = "m" -> \/ a = "1" /\ b \in {"0", "1", "2"}
                           \/ a = "0" /\ b \in Digits \ {"0"}
             [] c = "d" -> \/ a = "3" /\ b \in {"0", "1"}
                           \/ a \in {"1", "2"} /\ b \in Digits
                           \/ a = "0" /\ b \in Digits \ {"0"}
                           \/ a = " " /\ b \in Digits \ {"0"}
             [] c = "H" -> \/ a = "2" /\ b \in {"0", "1", "2", "3"}
                           \/ a \in {"0", "1"} /\ b \in Digits
             [] c = "M" -> a \in {"0", "1", "2", "3", "4", "5"} /\ b \in Digits
             [] OTHER -> FALSE

SetField(acc, c, v) ==
  CASE c = "Y" -> [acc EXCEPT !.Y = v]
    [] c = "m" -> [acc EXCEPT !.m = v]
    [] c = "d" -> [acc EXCEPT !.d = v]
    [] c = "H" -> [acc EXCEPT !.H = v]
    [] c = "M" -> [acc EXCEPT !.M = v]

Drop(s, n) == SubSeq(s, n + 1, Len(s))

RECURSIVE LeadingSpaces(_)
LeadingSpaces(s) ==
  IF s # "" /\ Head(s) \in Whitespace THEN 1 + LeadingSpaces(Tail(s)) ELSE 0

\* The regular-expression match: the fields found and the unmatched rest, or
\* ok = FALSE when the string does not match the format.  `n` is the number
\* of characters tried for the item the format starts with (0: not chosen
\* yet).  A directive tries its alternatives in the order of the regular
\* expression, and `\s+` the longest run of white space first; each gives way
\* to the next when the rest of the format does not match behind it.
\* The match r where it succeeded, the alternative where it did not.
Backtrack(r, alt) == IF r.ok THEN r ELSE alt

RECURSIVE StrpMatch(_, _, _, _)
StrpMatch(fmt, s, acc, n) ==
  IF fmt = "" THEN [acc EXCEPT !.ok = TRUE, !.rest = s]
  ELSE IF Head(fmt) = "%"
  THEN IF n = 0
       THEN StrpMatch(fmt, s, acc, IF Char(fmt, 2) = "Y" THEN 4 ELSE 2)
       ELSE Backtrack(
              IF Len(s) >= n /\ DirectiveMatches(Char(fmt, 2), SubSeq(s, 1, n))
              THEN StrpMatch(Drop(fmt, 2), Drop(s, n),
                             SetField(acc, Char(fmt, 2), DigitsVal(SubSeq(s, 1, n), 0)),
                             0)
              ELSE [acc EXCEPT !.ok = FALSE],
              IF n = 2 THEN StrpMatch(fmt, s, acc, 1)
              ELSE [acc EXCEPT !.ok = FALSE])
  ELSE IF Head(fmt) \in Whitespace
  THEN IF n = 0
       THEN IF LeadingSpaces(s) = 0 THEN [acc EXCEPT !.ok = FALSE]
            ELSE StrpMatch(fmt, s, acc, LeadingSpaces(s))
       ELSE Backtrack(
              StrpMatch(Drop(fmt, LeadingSpaces(fmt)), Drop(s, n), acc, 0),
              IF n > 1 THEN StrpMatch(fmt, s, acc, n - 1)
              ELSE [acc EXCEPT !.ok = FALSE])
  ELSE IF s # "" /\ LowerChar(Head(s)) = LowerChar(Head(fmt))
  THEN StrpMatch(Tail(fmt), Tail(s), acc, 0)
  ELSE [acc EXCEPT !.ok = FALSE]

IsLeap(y) == y % 4 = 0 /\ (y % 100 # 0 \/ y % 400 = 0)

DaysInMonth(y, m) ==
  IF m = 2 THEN (IF IsLeap(y) THEN 29 ELSE 28)
  ELSE IF m \in {4, 6, 9, 11} THEN 30 ELSE 31

\* What strptime makes of the match r: ValueError (NoDatetime) when the
\* format did not match, when unconverted data remains, or when the date does
\* not exist (year 0, day 31 of a 30-day month).
StrpResult(r) ==
  IF ~r.ok \/ r.rest # "" THEN NoDatetime
  ELSE IF r.Y < 1 \/ r.d > DaysInMonth(r.Y, r.m) THEN NoDatetime
  ELSE [ok |-> TRUE, Y |-> r.Y, m |-> r.m, d |-> r.d, H |-> r.H, M |-> r.M]

\* datetime.strptime(s, fmt): the datetime, or NoDatetime for ValueError.
Strptime(s, fmt) ==
  StrpResult(StrpMatch(fmt, s, [ok |-> FALSE, Y |-> 1900, m |-> 1, d |-> 1,
                                H |-> 0, M |-> 0, rest |-> ""], 0))

\* a < b for two datetimes.
DtLess(a, b) ==
  \/ a.Y < b.Y
  \/ a.Y = b.Y /\ a.m < b.m
  \/ a.Y = b.Y /\ a.m = b.m /\ a.d < b.d
  \/ a.Y = b.Y /\ a.m = b.m /\ a.d = b.d /\ a.H < b.H
  \/ a.Y = b.Y /\ a.m = b.m /\ a.d = b.d /\ a.H = b.H /\ a.M < b.M

(***************************************************************************)
(* float(s)                                                                *)
(*                                                                         *)
(* A float is kind "num" with value sign * n * 10^e, or "inf" (signed), or *)
(* "nan"; kind "err" stands for the ValueError float raises.  The model    *)
(* covers decimal strings whose digits fit a 32-bit integer and whose      *)
(* value the double holds exactly enough to compare (no rounding of two    *)
(* different decimals onto one double, no underflow to zero).              *)
(***************************************************************************)
FloatErr == [kind |-> "err", neg |-> FALSE, n |-> 0, e |-> 0]

FloatNaN == [kind |-> "nan", neg |-> FALSE, n |-> 0, e |-> 0]

FloatInf(neg) == [kind |-> "inf", neg |-> neg, n |-> 0, e |-> 0]

\* The one representation of sign * n * 10^e: n without trailing zeros, and
\* exponent 0 for zero (which keeps its sign, as 0.0 and -0.0 do).
RECURSIVE FloatNum(_, _, _)
FloatNum(neg, n, e) ==
  IF n = 0 THEN [kind |-> "num", neg |-> neg, n |-> 0, e |-> 0]
  ELSE IF n % 10 = 0 THEN FloatNum(neg, n \div 10, e + 1)
  ELSE [kind |-> "num", neg |-> neg, n |-> n, e |-> e]

FloatZero == FloatNum(FALSE, 0, 0)

\* Every underscore stands between two digits.
UnderscoresOK(s) ==
  \A i \in 1..Len(s) :
     Char(s, i) = "_" =>
        /\ i > 1 /\ Char(s, i - 1) \in Digits
        /\ i < Len(s) /\ Char(s, i + 1) \in Digits

RECURSIVE RemoveUnderscores(_)
RemoveUnderscores(s) ==
  IF s = "" THEN ""
  ELSE IF Head(s) = "_" THEN RemoveUnderscores(Tail(s))
  ELSE Head(s) \o RemoveUnderscores(Tail(s))

\* The length of the run of digits s starts with.
RECURSIVE DigitRun(_)
DigitRun(s) ==
  IF s # "" /\ Head(s) \in Digits THEN 1 + DigitRun(Tail(s)) ELSE 0

\* The exponent `digits` behind "e" and its sign; ip and fp are the digits
\* before and behind the point.
FloatExpValue(neg, ip, fp, eneg, g) ==
  IF g = "" \/ ~AllChars(g, Digits) THEN FloatErr
  ELSE FloatNum(neg, DigitsVal(ip \o fp, 0),
                (IF eneg THEN 0 - DigitsVal(g, 0) ELSE DigitsVal(g, 0)) - Len(fp))

\* `[e [sign] digits]`, then the end of the string.
FloatExponent(neg, ip, fp, c) ==
  IF ip \o fp = "" THEN FloatErr
  ELSE IF c = "" THEN FloatNum(neg, DigitsVal(ip \o fp, 0), 0 - Len(fp))
  ELSE IF Head(c) \notin {"e", "E"} THEN FloatErr
  ELSE IF Tail(c) # "" /\ Head(Tail(c)) \in {"+", "-"}
  THEN FloatExpValue(neg, ip, fp, Head(Tail(c)) = "-", Tail(Tail(c)))
  ELSE FloatExpValue(neg, ip, fp, FALSE, Tail(c))

\* `[. digits]` behind the integer digits ip.
FloatFraction(neg, ip, a) ==
  IF a # "" /\ Head(a) = "."
  THEN FloatExponent(neg, ip, SubSeq(Tail(a), 1, DigitRun(Tail(a))),
                     Drop(Tail(a), DigitRun(Tail(a))))
  ELSE FloatExponent(neg, ip, "", a)

\* The unsigned decimal `digits [. digits] [e [sign] digits]`.
FloatDecimal(neg, s) ==
  FloatFraction(neg, SubSeq(s, 1, DigitRun(s)), Drop(s, DigitRun(s)))

\* The text behind the sign: inf, infinity, nan in any case, or a decimal.
FloatUnsigned(neg, v) ==
  IF Lower(v) \in {"inf", "infinity"} THEN FloatInf(neg)
  ELSE IF Lower(v) = "nan" THEN FloatNaN
  ELSE FloatDecimal(neg, v)

\* The stripped text: underscores checked and removed, then the sign.
FloatSigned(t) ==
  IF t = "" \/ ~UnderscoresOK(t) THEN FloatErr
  ELSE IF Head(t) \in {"+", "-"}
  THEN FloatUnsigned(Head(t) = "-", RemoveUnderscores(Tail(t)))
  ELSE FloatUnsigned(FALSE, RemoveUnderscores(t))

\* float(s) for a str s.
PyFloat(s) == FloatSigned(Strip(s))

RECURSIVE Pow10(_)
Pow10(k) == IF k = 0 THEN 1 ELSE 10 * Pow10(k - 1)

\* a < b for two floats (neither "err"); false whenever one is nan.
FloatLess(a, b) ==
  LET m == IF a.e < b.e THEN a.e ELSE b.e
      sa == (IF a.neg THEN 0 - a.n ELSE a.n) * Pow10(a.e - m)
      sb == (IF b.neg THEN 0 - b.n ELSE b.n) * Pow10(b.e - m)
  IN  IF a.kind = "nan" \/ b.kind = "nan" THEN FALSE
      ELSE IF a.kind = "inf" THEN a.neg /\ ~(b.kind = "inf" /\ b.neg)
      ELSE IF b.kind = "inf" THEN ~b.neg
      ELSE sa < sb

\* a == b for two floats.
FloatEq(a, b) ==
  /\ a.kind # "nan" /\ b.kind # "nan"
  /\ ~FloatLess(a, b) /\ ~FloatLess(b, a)

\* a <= b, a > b as Python evaluates them.
FloatLe(a, b) == FloatLess(a, b) \/ FloatEq(a, b)

FloatGt(a, b) == FloatLess(b, a)

(***************************************************************************)
(* Python values: a str, an int, a float or None, tagged by type.  A dict  *)
(* is a function from its keys (strings) to values.                        *)
(***************************************************************************)
PyStr(s) == [t |-> "str", s |-> s, v |-> FloatZero]

PyNum(v) == [t |-> "float", s |-> "", v |-> v]

PyInt(n) == [t |-> "int", s |-> "", v |-> FloatNum(n < 0, IF n < 0 THEN 0 - n ELSE n, 0)]

PyNone == [t |-> "None", s |-> "", v |-> FloatZero]

\* d.get(key)
Get(d, key) == IF key \in DOMAIN d THEN d[key] ELSE PyNone

\* k zeros.
RECURSIVE Zeros(_)
Zeros(k) == IF k <= 0 THEN "" ELSE "0" \o Zeros(k - 1)

\* The digits ds with the decimal point behind the first decpt of them
\* (before them when decpt <= 0): "489.99", "80.0", "0.0001".
FloatPositional(ds, decpt) ==
  IF decpt >= Len(ds) THEN ds \o Zeros(decpt - Len(ds)) \o ".0"
  ELSE IF decpt > 0
  THEN SubSeq(ds, 1, decpt) \o "." \o SubSeq(ds, decpt + 1, Len(ds))
  ELSE "0." \o Zeros(0 - decpt) \o ds

\* The digits ds times 10^x with one digit before the point: "1e-05",
\* "1.5e-05", "1e+16"; the exponent has a sign and two digits at least.
FloatExponential(ds, x) ==
  Head(ds) \o (IF Len(ds) > 1 THEN "." \o Tail(ds) ELSE "")
  \o "e" \o (IF x < 0 THEN "-" ELSE "+")
  \o (IF x > -10 /\ x < 10 THEN "0" ELSE "")
  \o NatStr(IF x < 0 THEN 0 - x ELSE x)

\* repr of 0.ds * 10^decpt: exponent notation below 1e-4 and from 1e16 on.
FloatDigits(ds, decpt) ==
  IF decpt > 16 \/ decpt < -3 THEN FloatExponential(ds, decpt - 1)
  ELSE FloatPositional(ds, decpt)

\* repr of a float, its digits v.n being the shortest that give the double.
FloatRepr(v) ==
  IF v.kind = "nan" THEN "nan"
  ELSE IF v.kind = "inf" THEN (IF v.neg THEN "-inf" ELSE "inf")
  ELSE (IF v.neg THEN "-" ELSE "")
       \o FloatDigits(NatStr(v.n), Len(NatStr(v.n)) + v.e)

\* str(x); an int is kept as sign, digits v.n and v.e trailing zeros.
StrOf(x) ==
  CASE x.t = "str" -> x.s
    [] x.t = "None" -> "None"
    [] x.t = "int" -> (IF x.v.neg THEN "-" ELSE "") \o NatStr(x.v.n) \o Zeros(x.v.e)
    [] x.t = "float" -> FloatRepr(x.v)

\* float(x): of a str by parsing, of a number itself, TypeError ("err") of None.
FloatOf(x) ==
  CASE x.t = "str" -> PyFloat(x.s)
    [] x.t = "None" -> FloatErr
    [] OTHER -> x.v

(***************************************************************************)
(* validate_flight_row                                                     *)
(***************************************************************************)
CSV_HEADER == <<"flight_id", "origin", "destination", "departure_datetime",
                "arrival_datetime", "price">>

DISALLOWED_AIRPORT_CODES == {"XXX"}

\* [cell.strip() for cell in row]
RECURSIVE StripAll(_)
StripAll(row) ==
  IF Len(row) = 0 THEN <<>> ELSE <<Strip(Head(row))>> \o StripAll(Tail(row))

is_header_row(row) == StripAll(row) = CSV_HEADER

\* The two flight_id checks chained with `elif`: the length is looked at
\* only when the first check passed.
FlightIdErrorsElif(flight_id) ==
  IF Len(flight_id) < 2 \/ ~IsAlnum(flight_id) THEN <<"invalid flight_id">>
  ELSE IF Len(flight_id) > 8
  THEN <<"flight_id too long (more than 8 characters)">>
  ELSE <<>>

\* flight_id: 2-8 alphanumeric characters; two independent checks.
FlightIdErrors(flight_id) ==
  (IF Len(flight_id) < 2 \/ ~IsAlnum(flight_id)
   THEN <<"invalid flight_id">> ELSE <<>>)
  \o (IF Len(flight_id) > 8
      THEN <<"flight_id too long (more than 8 characters)">> ELSE <<>>)

\* origin / destination: 3 uppercase letters, not in the disallowed set.
AirportErrors(code, name) ==
  IF code = "" THEN <<"missing " \o name \o " field">>
  ELSE IF Len(code) # 3 \/ ~IsUpper(code) \/ ~IsAlpha(code)
  THEN <<"invalid " \o name \o " code">>
  ELSE IF code \in DISALLOWED_AIRPORT_CODES
  THEN <<"invalid " \o name \o " code">>
  ELSE <<>>

\* The order check written `arr_dt < dep_dt`: equal timestamps pass.
DatetimeReasonsStrictlyBefore(dep_dt, arr_dt) ==
  (IF ~dep_dt.ok /\ ~arr_dt.ok THEN <<"invalid date format">>
   ELSE (IF ~dep_dt.ok THEN <<"invalid departure datetime">> ELSE <<>>)
        \o (IF ~arr_dt.ok THEN <<"invalid arrival datetime">> ELSE <<>>))
  \o (IF dep_dt.ok /\ arr_dt.ok /\ DtLess(arr_dt, dep_dt)
      THEN <<"arrival before departure">> ELSE <<>>)

\* The reasons for the two parsed datetimes: the combined message when both
\* failed, the side's message when one did, then arrival after departure.
DatetimeReasons(dep_dt, arr_dt) ==
  (IF ~dep_dt.ok /\ ~arr_dt.ok THEN <<"invalid date format">>
   ELSE (IF ~dep_dt.ok THEN <<"invalid departure datetime">> ELSE <<>>)
        \o (IF ~arr_dt.ok THEN <<"invalid arrival datetime">> ELSE <<>>))
  \o (IF dep_dt.ok /\ arr_dt.ok /\ ~DtLess(dep_dt, arr_dt)
      THEN <<"arrival before departure">> ELSE <<>>)

\* departure and arrival datetime.
DatetimeErrors(dep_str, arr_str) ==
  DatetimeReasons(Strptime(dep_str, DATETIME_FORMAT),
                  Strptime(arr_str, DATETIME_FORMAT))

\* The reason for the parsed price ("err": float raised ValueError).
PriceReasons(price_val) ==
  IF price_val.kind = "err" THEN <<"invalid price value">>
  ELSE IF FloatLe(price_val, FloatZero) THEN <<"negative price value">>
  ELSE <<>>

\* price: positive float number.
PriceErrors(price_str) == PriceReasons(PyFloat(price_str))

\* The rules with a return after the first one that found something.
RowErrorsFirstRule(f) ==
  IF FlightIdErrors(f[1]) # <<>> THEN FlightIdErrors(f[1])
  ELSE IF AirportErrors(f[2], "origin") # <<>> THEN AirportErrors(f[2], "origin")
  ELSE IF AirportErrors(f[3], "destination") # <<>>
  THEN AirportErrors(f[3], "destination")
  ELSE IF DatetimeErrors(f[4], f[5]) # <<>> THEN DatetimeErrors(f[4], f[5])
  ELSE PriceErrors(f[6])

\* The reasons of a row of six stripped fields, rule after rule.
RowErrors(f) ==
  FlightIdErrors(f[1]) \o AirportErrors(f[2], "origin")
  \o AirportErrors(f[3], "destination")
  \o DatetimeErrors(f[4], f[5]) \o PriceErrors(f[6])

\* The three values returned for six stripped fields and their reasons.
RowResult(f, errors) ==
  IF errors # <<>>
  THEN [is_valid |-> FALSE, record |-> PyNone, errors |-> errors]
  ELSE [is_valid |-> TRUE,
        record |-> [flight_id |-> PyStr(f[1]),
                    origin |-> PyStr(f[2]),
                    destination |-> PyStr(f[3]),
                    departure_datetime |-> PyStr(f[4]),
                    arrival_datetime |-> PyStr(f[5]),
                    price |-> PyNum(PyFloat(f[6]))],
        errors |-> <<>>]

validate_flight_row(fields) ==
  IF Len(fields) # 6
  THEN [is_valid |-> FALSE, record |-> PyNone,
        errors |-> <<"missing required fields">>]
  ELSE RowResult(StripAll(fields), RowErrors(StripAll(fields)))

(***************************************************************************)
(* flight_matches_query, run_queries                                       *)
(***************************************************************************)

\* flight_id, origin, destination: exact match of the two sides as text.
ExactMatch(flight, query, key) ==
  key \in DOMAIN query => StrOf(Get(flight, key)) = StrOf(query[key])

\* The datetime under `key`, or NoDatetime when the key is missing (KeyError)
\* or its text does not parse (ValueError): both land in `except Exception`.
ParsedAt(d, key) ==
  IF key \in DOMAIN d THEN Strptime(StrOf(d[key]), DATETIME_FORMAT) ELSE NoDatetime

\* f >= q for the two parsed sides; false when either did not parse.
NotBefore(f, q) == q.ok /\ f.ok /\ ~DtLess(f, q)

\* The departure filter failing open: a side that does not parse is skipped.
DepartureMatchFailOpen(flight, query) ==
  ("departure_datetime" \in DOMAIN query
   /\ ParsedAt(flight, "departure_datetime").ok
   /\ ParsedAt(query, "departure_datetime").ok) =>
     ~DtLess(ParsedAt(flight, "departure_datetime"),
             ParsedAt(query, "departure_datetime"))

\* departure_datetime filter: flight departure >= query departure.
DepartureMatch(flight, query) ==
  "departure_datetime" \in DOMAIN query =>
     NotBefore(ParsedAt(flight, "departure_datetime"),
               ParsedAt(query, "departure_datetime"))

\* arrival_datetime filter: flight arrival <= query arrival.
ArrivalMatch(flight, query) ==
  "arrival_datetime" \in DOMAIN query =>
     NotBefore(ParsedAt(query, "arrival_datetime"),
               ParsedAt(flight, "arrival_datetime"))

\* The float under `key`; "err" for a missing key or a value float rejects.
FloatAt(d, key) == IF key \in DOMAIN d THEN FloatOf(d[key]) ELSE FloatErr

\* Both sides are floats and not f_price > q_price.
NotAbove(f_price, q_price) ==
  q_price.kind # "err" /\ f_price.kind # "err" /\ ~FloatGt(f_price, q_price)

\* price filter: the flight is dropped only when f_price > q_price.
PriceMatch(flight, query) ==
  "price" \in DOMAIN query =>
     NotAbove(FloatAt(flight, "price"), FloatAt(query, "price"))

flight_matches_query(flight, query) ==
  /\ ExactMatch(flight, query, "flight_id")
  /\ ExactMatch(flight, query, "origin")
  /\ ExactMatch(flight, query, "destination")
  /\ DepartureMatch(flight, query)
  /\ ArrivalMatch(flight, query)
  /\ PriceMatch(flight, query)

\* [f for f in flights if flight_matches_query(f, query)]
RECURSIVE Matches(_, _)
Matches(flights, query) ==
  IF Len(flights) = 0 THEN <<>>
  ELSE (IF flight_matches_query(Head(flights), query)
        THEN <<Head(flights)>> ELSE <<>>)
       \o Matches(Tail(flights), query)

\* run_queries leaving out the queries nothing matches.
RECURSIVE run_queries_skip_empty(_, _)
run_queries_skip_empty(flights, queries) ==
  IF Len(queries) = 0 THEN <<>>
  ELSE (IF Matches(flights, Head(queries)) = <<>> THEN <<>>
        ELSE <<[query |-> Head(queries),
                matches |-> Matches(flights, Head(queries))]>>)
       \o run_queries_skip_empty(flights, Tail(queries))

\* One result per query, appended in the order of the queries.
RECURSIVE run_queries(_, _)
run_queries(flights, queries) ==
  IF Len(queries) = 0 THEN <<>>
  ELSE <<[query |-> Head(queries), matches |-> Matches(flights, Head(queries))]>>
       \o run_queries(flights, Tail(queries))

(***************************************************************************)
(* csv.reader([raw_line]) with the default (excel) dialect: the parser of  *)
(* _csv.c run over one line, then the end of input, taken a field at a     *)
(* time.  A field that starts with a quote runs to the first quote that is *)
(* not doubled; what follows it up to the next comma is added as it is.    *)
(* In an unquoted field a quote is an ordinary character.  The parser is   *)
(* not strict; over the modelled alphabet it raises (_csv.Error) for one   *)
(* reason, a field of more characters than csv.field_size_limit().  The    *)
(* result is [ok, row]: the row of fields, or ok = FALSE for the error.    *)
(***************************************************************************)

\* csv.field_size_limit(), the default of the csv module.
FieldSizeLimit == 131072

CsvError == [ok |-> FALSE, row |-> <<>>]

CsvOk(row) == [ok |-> TRUE, row |-> row]

\* The finished field put before the fields that follow it; the error when
\* the field is beyond the limit or the rest of the line gave one.
CsvCons(field, rest) ==
  IF Len(field) > FieldSizeLimit \/ ~rest.ok THEN CsvError
  ELSE CsvOk(<<field>> \o rest.row)

\* The first position from i on that holds character c, or Len(s) + 1.
IndexFrom(s, c, i) ==
  IF \E k \in i..Len(s) : Char(s, k) = c
  THEN CHOOSE k \in i..Len(s) :
         Char(s, k) = c /\ \A j \in i..(k - 1) : Char(s, j) # c
  ELSE Len(s) + 1

RECURSIVE CsvFields(_, _)
RECURSIVE CsvQuoted(_, _, _)
RECURSIVE CsvRest(_, _, _)

\* START_FIELD at position i (START_RECORD when i = 1).
CsvFields(s, i) ==
  IF i > Len(s) THEN (IF i = 1 THEN CsvOk(<<>>) ELSE CsvOk(<<"">>))
  ELSE IF Char(s, i) = "\"" THEN CsvQuoted(s, i + 1, "")
  ELSE IF Char(s, i) = "," THEN CsvCons("", CsvFields(s, i + 1))
  ELSE CsvRest(s, i, "")

\* IN_FIELD at position i: the field runs to the next comma or to the end.
CsvRest(s, i, field) ==
  CsvCons(field \o SubSeq(s, i, IndexFrom(s, ",", i) - 1),
          IF IndexFrom(s, ",", i) > Len(s) THEN CsvOk(<<>>)
          ELSE CsvFields(s, IndexFrom(s, ",", i) + 1))

\* IN_QUOTED_FIELD at position i; q is the next quote.  Behind it
\* (QUOTE_IN_QUOTED_FIELD) a second quote stands for a quote in the field, a
\* comma or the end closes the field, anything else carries on unquoted.
CsvQuoted(s, i, field) ==
  LET q == IndexFrom(s, "\"", i)
  IN  IF q >= Len(s) THEN CsvCons(field \o SubSeq(s, i, q - 1), CsvOk(<<>>))
      ELSE IF Char(s, q + 1) = "\""
      THEN CsvQuoted(s, q + 2, field \o SubSeq(s, i, q))
      ELSE IF Char(s, q + 1) = ","
      THEN CsvCons(field \o SubSeq(s, i, q - 1), CsvFields(s, q + 2))
      ELSE CsvRest(s, q + 1, field \o SubSeq(s, i, q - 1))

\* next(csv.reader([raw_line]))
CsvRow(raw_line) == CsvFields(raw_line, 1)

(***************************************************************************)
(* State                                                                   *)
(***************************************************************************)
VARIABLES
  pc,             \* where the run stands
  \* the command line and what it names
  args,           \* [source: "i" | "d" | "j" | "none", path, query: BOOLEAN]
  src_ok,         \* the -i file / -d directory exists and can be read
  files,          \* file name -> its lines (without the newline)
  db_doc,         \* the -j document
  query_doc,      \* the -q document
  \* parse_csv_file / parse_directory
  single_file, csv_files, path, line_no, seen_header,
  valid_records, error_lines, all_valid, all_errors,
  \* main
  flights, errors, queries, response,
  \* the output artifacts
  errors_txt, db_json, response_json,
  \* one call of validate_flight_row / flight_matches_query
  fields, validated, flight, query, matched

envVars == <<args, src_ok, files, db_doc, query_doc>>

parseVars == <<single_file, csv_files, path, line_no, seen_header,
               valid_records, error_lines, all_valid, all_errors>>

dataVars == <<flights, errors, queries, response>>

outVars == <<errors_txt, db_json, response_json>>

callVars == <<fields, validated, flight, query, matched>>

vars == <<pc, envVars, parseVars, dataVars, outVars, callVars>>

\* A JSON document on disk: missing, not JSON ("invalid"), or its top-level
\* shape with the items of a list (a dict is its own single item).
Doc(kind, items) == [kind |-> kind, items |-> items]

NoDoc == Doc("absent", <<>>)

\* An output file: not written, or written with this content.
NotWritten == [written |-> FALSE, data |-> <<>>]

Written(data) == [written |-> TRUE, data |-> data]

NoResult == [is_valid |-> FALSE, record |-> PyNone, errors |-> <<>>]

EnvIdle ==
  /\ args = [source |-> "none", path |-> "", query |-> FALSE]
  /\ src_ok = TRUE
  /\ files = <<>>
  /\ db_doc = NoDoc
  /\ query_doc = NoDoc

ParseIdle ==
  /\ single_file = TRUE
  /\ csv_files = <<>>
  /\ path = ""
  /\ line_no = 0
  /\ seen_header = FALSE
  /\ valid_records = <<>>
  /\ error_lines = <<>>
  /\ all_valid = <<>>
  /\ all_errors = <<>>

DataIdle ==
  /\ flights = <<>>
  /\ errors = <<>>
  /\ queries = <<>>
  /\ response = <<>>

OutIdle ==
  /\ errors_txt = NotWritten
  /\ db_json = NotWritten
  /\ response_json = NotWritten

CallIdle ==
  /\ fields = <<>>
  /\ validated = NoResult
  /\ flight = <<>>
  /\ query = <<>>
  /\ matched = FALSE

(***************************************************************************)
(* parse_csv_file, parse_directory                                         *)
(***************************************************************************)

\* "Line 3: " for a single file, "a.csv Line 3: " in a directory run
\* (os.path.basename(path) is the file's name).
Prefix(name, n, single) ==
  IF single THEN "Line " \o NatStr(n) \o ": "
  ELSE name \o " Line " \o NatStr(n) \o ": "

\* The arrow between the line and its message, U+2192 in the source, written
\* here with the characters of the alphabet.
Arrow == "->"

ErrorLine(name, n, single, raw_line, msg) ==
  Prefix(name, n, single) \o raw_line \o " " \o Arrow \o " " \o msg

\* The locals of parse_csv_file a line can change.
Locals(seen, valid, errs) ==
  [seen_header |-> seen, valid_records |-> valid, error_lines |-> errs]

\* A data row after validation: a record, or a diagnostic with its reasons.
AfterValidation(name, single, n, raw_line, seen, valid, errs, v) ==
  IF v.is_valid /\ v.record # PyNone
  THEN Locals(seen, Append(valid, v.record), errs)
  ELSE Locals(seen, valid,
              Append(errs, ErrorLine(name, n, single, raw_line, Join(v.errors))))

\* The header test without the flag: every header line is skipped.
AfterSplitEveryHeader(name, single, n, raw_line, seen, valid, errs, row) ==
  IF is_header_row(row) THEN Locals(TRUE, valid, errs)
  ELSE AfterValidation(name, single, n, raw_line, seen, valid, errs,
                       validate_flight_row(row))

\* The split row: the header, once per file, or a data row.
AfterSplit(name, single, n, raw_line, seen, valid, errs, row) ==
  IF ~seen /\ is_header_row(row) THEN Locals(TRUE, valid, errs)
  ELSE AfterValidation(name, single, n, raw_line, seen, valid, errs,
                       validate_flight_row(row))

\* next(reader): the row, or the diagnostic of a line the reader raised for.
AfterReader(name, single, n, raw_line, seen, valid, errs, r) ==
  IF ~r.ok
  THEN Locals(seen, valid,
              Append(errs, ErrorLine(name, n, single, raw_line,
                                     "could not parse CSV line")))
  ELSE AfterSplit(name, single, n, raw_line, seen, valid, errs, r.row)

\* What one iteration of the loop over the lines does with line `n`:
\* the header flag, the records and the diagnostics after it.
ProcessLine(name, single, n, raw_line, seen, valid, errs) ==
  IF Strip(raw_line) = "" THEN Locals(seen, valid, errs)
  ELSE IF StartsWith(LStrip(raw_line), "#")
  THEN Locals(seen, valid,
              Append(errs, ErrorLine(name, n, single, raw_line,
                                     "comment line, ignored for data parsing")))
  ELSE AfterReader(name, single, n, raw_line, seen, valid, errs, CsvRow(raw_line))

\* sorted(names)
RECURSIVE Sorted(_)
Sorted(S) ==
  IF S = {} THEN <<>>
  ELSE LET least == CHOOSE a \in S : \A b \in S \ {a} : StrLess(a, b)
       IN  <<least>> \o Sorted(S \ {least})

RECURSIVE Reverse(_)
Reverse(seq) ==
  IF Len(seq) = 0 THEN <<>> ELSE Reverse(Tail(seq)) \o <<Head(seq)>>

\* The .csv files without the sort, in an order os.listdir may give them.
CsvFilesAsListed(names) ==
  Reverse(Sorted({n \in names : EndsWith(Lower(n), ".csv")}))

\* The .csv files of the directory, sorted by path (a common prefix, then
\* the name).
CsvFiles(names) == Sorted({n \in names : EndsWith(Lower(n), ".csv")})

\* parse_csv_file(path, single_file=True): the locals, then open().
ParseCsvFileBegin ==
  /\ pc = "parse_csv_file"
  /\ IF src_ok
     THEN /\ pc' = "read"
          /\ single_file' = TRUE
          /\ path' = args.path
          /\ line_no' = 0
          /\ seen_header' = FALSE
          /\ valid_records' = <<>>
          /\ error_lines' = <<>>
          /\ UNCHANGED <<csv_files, all_valid, all_errors>>
     ELSE /\ pc' = "fatal"
          /\ UNCHANGED parseVars
  /\ UNCHANGED <<envVars, dataVars, outVars, callVars>>

\* parse_directory: os.listdir, the filter and the sort.
ListDirectory ==
  /\ pc = "parse_directory"
  /\ IF src_ok
     THEN /\ pc' = "next_file"
          /\ csv_files' = CsvFiles(DOMAIN files)
          /\ all_valid' = <<>>
          /\ all_errors' = <<>>
          /\ UNCHANGED <<single_file, path, line_no, seen_header,
                         valid_records, error_lines>>
     ELSE /\ pc' = "fatal"
          /\ UNCHANGED parseVars
  /\ UNCHANGED <<envVars, dataVars, outVars, callVars>>

\* parse_directory: the head of the loop over the sorted files; the call of
\* parse_csv_file(csv_path, single_file=False), or the return.
NextFile ==
  /\ pc = "next_file"
  /\ IF csv_files # <<>>
     THEN /\ pc' = "read"
          /\ single_file' = FALSE
          /\ path' = Head(csv_files)
          /\ csv_files' = Tail(csv_files)
          /\ line_no' = 0
          /\ seen_header' = FALSE
          /\ valid_records' = <<>>
          /\ error_lines' = <<>>
          /\ UNCHANGED <<all_valid, all_errors, flights, errors>>
     ELSE /\ pc' = "parsed"
          /\ flights' = all_valid
          /\ errors' = all_errors
          /\ UNCHANGED parseVars
  /\ UNCHANGED <<envVars, queries, response, outVars, callVars>>

\* parse_csv_file: one iteration of `for line_no, line in enumerate(f, 1)`.
ReadLine ==
  /\ pc = "read"
  /\ line_no < Len(files[path])
  /\ line_no' = line_no + 1
  /\ \E r \in {ProcessLine(path, single_file, line_no + 1, files[path][line_no + 1],
                           seen_header, valid_records, error_lines)} :
        /\ seen_header' = r.seen_header
        /\ valid_records' = r.valid_records
        /\ error_lines' = r.error_lines
  /\ UNCHANGED <<pc, single_file, csv_files, path, all_valid, all_errors>>
  /\ UNCHANGED <<envVars, dataVars, outVars, callVars>>

\* parse_csv_file returns: to main (single file) or to parse_directory,
\* which extends the combined lists.
EndOfFile ==
  /\ pc = "read"
  /\ line_no = Len(files[path])
  /\ IF single_file
     THEN /\ pc' = "parsed"
          /\ flights' = valid_records
          /\ errors' = error_lines
          /\ UNCHANGED <<all_valid, all_errors>>
     ELSE /\ pc' = "next_file"
          /\ all_valid' = all_valid \o valid_records
          /\ all_errors' = all_errors \o error_lines
          /\ UNCHANGED <<flights, errors>>
  /\ UNCHANGED <<single_file, csv_files, path, line_no, seen_header,
                 valid_records, error_lines>>
  /\ UNCHANGED <<envVars, queries, response, outVars, callVars>>

(***************************************************************************)
(* main                                                                    *)
(***************************************************************************)

\* main, -j: load_json_database; an unreadable file, a document that is not
\* JSON or not a list raises, and nothing catches it.
LoadJsonDatabase ==
  /\ pc = "main"
  /\ args.source = "j"
  /\ IF db_doc.kind = "list"
     THEN pc' = "query" /\ flights' = db_doc.items
     ELSE pc' = "fatal" /\ UNCHANGED flights
  /\ UNCHANGED <<envVars, parseVars, errors, queries, response, outVars, callVars>>

\* main without -i, -d and -j: prints the usage line and returns.
NoSource ==
  /\ pc = "main"
  /\ args.source = "none"
  /\ pc' = "done"
  /\ UNCHANGED <<envVars, parseVars, dataVars, outVars, callVars>>

\* main, -i or -d: the call of parse_csv_file or parse_directory.
CallParse ==
  /\ pc = "main"
  /\ args.source \in {"i", "d"}
  /\ pc' = IF args.source = "i" THEN "parse_csv_file" ELSE "parse_directory"
  /\ UNCHANGED <<envVars, parseVars, dataVars, outVars, callVars>>

\* main: errors.txt, written when there are diagnostics.
WriteErrorsTxt ==
  /\ pc = "parsed"
  /\ pc' = "save"
  /\ errors_txt' = IF errors # <<>> THEN Written(errors) ELSE errors_txt
  /\ UNCHANGED <<envVars, parseVars, dataVars, db_json, response_json, callVars>>

\* main: save_json_database(flights, output_path).
SaveJsonDatabase ==
  /\ pc = "save"
  /\ pc' = "query"
  /\ db_json' = Written(flights)
  /\ UNCHANGED <<envVars, parseVars, dataVars, errors_txt, response_json, callVars>>

\* main without -q: the summary line.
Summary ==
  /\ pc = "query"
  /\ ~args.query
  /\ pc' = "done"
  /\ UNCHANGED <<envVars, parseVars, dataVars, outVars, callVars>>

\* main, -q: load_queries; a dict becomes [dict], a list is taken as it is,
\* anything else (or no readable JSON) raises.
LoadQueries ==
  /\ pc = "query"
  /\ args.query
  /\ IF query_doc.kind \in {"dict", "list"}
     THEN pc' = "run" /\ queries' = query_doc.items
     ELSE pc' = "fatal" /\ UNCHANGED queries
  /\ UNCHANGED <<envVars, parseVars, flights, errors, response, outVars, callVars>>

\* main: run_queries and the response file.
RunQueries ==
  /\ pc = "run"
  /\ pc' = "done"
  /\ response' = run_queries(flights, queries)
  /\ response_json' = Written(run_queries(flights, queries))
  /\ UNCHANGED <<envVars, parseVars, flights, errors, queries,
                 errors_txt, db_json, callVars>>

(***************************************************************************)
(* Inputs                                                                  *)
(***************************************************************************)
MaxLines == 3

MaxMainLines == 2

MaxFlights == 2

MaxQueries == 2

MaxFields == 7

SeqsUpTo(S, n) == UNION {[1..k -> S] : k \in 0..n}

HeaderLine == "flight_id,origin,destination,departure_datetime,arrival_datetime,price"

ValidLine == "BA2490,LHR,JFK,2025-11-14 10:30,2025-11-14 13:05,489.99"

SecondValidLine == "SK404,OSL,RIX,2025-11-15 14:00,2025-11-15 16:00,120.00"

LineSamples ==
  {"  ", " # sample data", HeaderLine, ValidLine, SecondValidLine, "SK404,OSL"}

\* The directories tried: `all` spread over the entries, `k` lines to the
\* first.  "A.CSV" sorts before "b.csv"; "notes.txt" is no .csv file.
Listings(all, k) ==
  LET a == SubSeq(all, 1, k)
      b == SubSeq(all, k + 1, Len(all))
  IN  {("b.csv" :> a) @@ ("A.CSV" :> b),
       ("a.csv" :> a) @@ ("notes.txt" :> b)}
      \cup (IF k = 0 THEN {("notes.txt" :> b)} ELSE {})
      \cup (IF Len(all) = 0 THEN {<<>>} ELSE {})

Sources(n) ==
  {[source |-> "i", path |-> "in.csv", ok |-> TRUE, files |-> ("in.csv" :> ls)] :
      ls \in SeqsUpTo(LineSamples, n)}
  \cup {[source |-> "d", path |-> "data", ok |-> TRUE, files |-> f] :
          f \in UNION {Listings(ls[1], ls[2]) :
                         ls \in {p \in SeqsUpTo(LineSamples, n) \X (0..n) :
                                   p[2] <= Len(p[1])}}}

\* n times the text c.
RECURSIVE Rep(_, _)
Rep(c, n) ==
  IF n = 0 THEN ""
  ELSE IF n % 2 = 0 THEN Rep(c \o c, n \div 2)
  ELSE c \o Rep(c, n - 1)

\* A line of one field beyond the field size limit, and the header with its
\* first field padded beyond it.
LongLine == Rep("a", FieldSizeLimit + 1)

LongHeaderLine ==
  "flight_id" \o Rep(" ", FieldSizeLimit)
  \o ",origin,destination,departure_datetime,arrival_datetime,price"

\* Sources that hold such lines: one file, and a directory of two.
LongSources ==
  {[source |-> "i", path |-> "in.csv", ok |-> TRUE,
    files |-> ("in.csv" :> <<LongLine>>)],
   [source |-> "d", path |-> "data", ok |-> TRUE,
    files |-> ("b.csv" :> <<LongHeaderLine, HeaderLine, HeaderLine>>)
              @@ ("A.CSV" :> <<ValidLine, LongLine>>)]}

\* A directory whose two sources each hold the two valid lines, in
\* opposite orders, among a comment, a header, a blank and an invalid line.
MixedSources ==
  {[source |-> "d", path |-> "data", ok |-> TRUE,
    files |-> ("b.csv" :> <<" # sample data", HeaderLine, ValidLine, "  ",
                            SecondValidLine>>)
              @@ ("A.CSV" :> <<SecondValidLine, "SK404,OSL", ValidLine>>)]}

MissingSources ==
  {[source |-> "i", path |-> "in.csv", ok |-> FALSE, files |-> <<>>],
   [source |-> "d", path |-> "data", ok |-> FALSE, files |-> <<>>]}

FlightOf(line) == validate_flight_row(CsvRow(line).row).record

Flight1 == FlightOf(ValidLine)

Flight2 == FlightOf(SecondValidLine)

Query1 == "origin" :> PyStr("LHR")

Query2 == "price" :> PyInt(100)

DbDocs ==
  {Doc("missing", <<>>), Doc("invalid", <<>>), Doc("dict", <<Flight1>>),
   Doc("list", <<>>), Doc("list", <<Flight1, Flight2>>)}

QueryDocs ==
  {Doc("missing", <<>>), Doc("invalid", <<>>), Doc("scalar", <<>>),
   Doc("dict", <<Query1>>), Doc("list", <<>>), Doc("list", <<Query2, Query1>>)}

(***************************************************************************)
(* The run of main                                                         *)
(***************************************************************************)
Init ==
  /\ pc = "main"
  /\ \/ \E src \in Sources(MaxMainLines) \cup LongSources \cup MixedSources
                     \cup MissingSources :
          /\ args \in {[source |-> src.source, path |-> src.path, query |-> q] :
                         q \in BOOLEAN}
          /\ src_ok = src.ok
          /\ files = src.files
          /\ db_doc = NoDoc
     \/ /\ args \in {[source |-> "j", path |-> "db.json", query |-> q] : q \in BOOLEAN}
        /\ src_ok = TRUE
        /\ files = <<>>
        /\ db_doc \in DbDocs
     \/ /\ args \in {[source |-> "none", path |-> "", query |-> q] : q \in BOOLEAN}
        /\ src_ok = TRUE
        /\ files = <<>>
        /\ db_doc = NoDoc
  /\ query_doc \in IF args.query THEN QueryDocs ELSE {NoDoc}
  /\ ParseIdle /\ DataIdle /\ OutIdle /\ CallIdle

Parse ==
  \/ ParseCsvFileBegin
  \/ ListDirectory
  \/ NextFile
  \/ ReadLine
  \/ EndOfFile

Next ==
  \/ LoadJsonDatabase
  \/ NoSource
  \/ CallParse
  \/ Parse
  \/ WriteErrorsTxt
  \/ SaveJsonDatabase
  \/ Summary
  \/ LoadQueries
  \/ RunQueries

Spec == Init /\ [][Next]_vars

(***************************************************************************)
(* Ingestion alone: parse_csv_file on one file, parse_directory on a       *)
(* directory.                                                              *)
(***************************************************************************)
InitIngest ==
  /\ \E src \in Sources(MaxLines) \cup LongSources \cup MixedSources :
        /\ args = [source |-> src.source, path |-> src.path, query |-> FALSE]
        /\ files = src.files
        /\ pc = IF src.source = "i" THEN "parse_csv_file" ELSE "parse_directory"
  /\ src_ok = TRUE
  /\ db_doc = NoDoc
  /\ query_doc = NoDoc
  /\ ParseIdle /\ DataIdle /\ OutIdle /\ CallIdle

SpecIngest == InitIngest /\ [][Parse]_vars

(***************************************************************************)
(* validate_flight_row alone, on rows of field strings                     *)
(***************************************************************************)
IdSamples == {"BA2490", "A", "A$", "ABCDEFGH9", "ABCDEFG$HI", " W6 "}

OriginSamples == {"LHR", "", "XXX", "lhr"}

DestinationSamples == {"JFK", "", "JFKX"}

DepartureSamples ==
  {"2025-11-14 10:30", "2025-11-14 13:05", "14/11/2025 10:30", "2025-02-30 10:30"}

ArrivalSamples == {"2025-11-14 13:05", "2025-11-14 10:30", "", "2025-11-14 24:00"}

PriceSamples == {"489.99", "0", "-5", "abc", "nan"}

SixFieldRows ==
  {<<id, o, d, dep, arr, p>> :
     id \in IdSamples, o \in OriginSamples, d \in DestinationSamples,
     dep \in DepartureSamples, arr \in ArrivalSamples, p \in PriceSamples}

\* Rows of any other number of fields, up to MaxFields.
OtherRows == {r \in SeqsUpTo({"", "BA2490"}, MaxFields) : Len(r) # 6}

InitValidate ==
  /\ pc = "validate_flight_row"
  /\ fields \in SixFieldRows \cup OtherRows
  /\ validated = NoResult
  /\ flight = <<>> /\ query = <<>> /\ matched = FALSE
  /\ EnvIdle /\ ParseIdle /\ DataIdle /\ OutIdle

Validate ==
  /\ pc = "validate_flight_row"
  /\ pc' = "returned"
  /\ validated' = validate_flight_row(fields)
  /\ UNCHANGED <<envVars, parseVars, dataVars, outVars, fields, flight, query, matched>>

SpecValidate == InitValidate /\ [][Validate]_vars

(***************************************************************************)
(* flight_matches_query alone, on one flight and one query                 *)
(***************************************************************************)

\* A key the dict does not hold.
Absent == [t |-> "absent", s |-> "", v |-> FloatZero]

\* The dict of the entries of r that are not Absent.
Dict(r) == [k \in {k \in DOMAIN r : r[k] # Absent} |-> r[k]]

FlightSamples ==
  {Dict(r) : r \in
     [flight_id : {PyStr("BA2490"), PyInt(100)},
      origin : {PyStr("LHR"), Absent},
      destination : {PyStr("JFK")},
      departure_datetime : {PyStr("2025-11-14 10:30"), PyStr("not a date"), Absent},
      arrival_datetime : {PyStr("2025-11-14 13:05"), PyStr("n/a")},
      price : {PyNum(PyFloat("99.99")), PyNum(PyFloat("120.0")), PyStr("abc"),
               PyNum(FloatNaN)}]}

QuerySamples ==
  {Dict(r) : r \in
     [flight_id : {Absent, PyStr("100")},
      origin : {Absent, PyStr("LHR")},
      destination : {Absent, PyStr("RIX")},
      departure_datetime : {Absent, PyStr("2025-11-14 10:30"),
                            PyStr("2025-11-14 10:31"), PyStr("soon")},
      arrival_datetime : {Absent, PyStr("2025-11-14 13:05"), PyStr("2025-11-14 13:04")},
      price : {Absent, PyInt(100), PyNum(PyFloat("99.99")), PyStr("x")},
      airline : {Absent, PyStr("BA")}]}

InitMatch ==
  /\ pc = "flight_matches_query"
  /\ flight \in FlightSamples
  /\ query \in QuerySamples
  /\ matched = FALSE
  /\ fields = <<>> /\ validated = NoResult
  /\ EnvIdle /\ ParseIdle /\ DataIdle /\ OutIdle

Match ==
  /\ pc = "flight_matches_query"
  /\ pc' = "returned"
  /\ matched' = flight_matches_query(flight, query)
  /\ UNCHANGED <<envVars, parseVars, dataVars, outVars, fields, validated, flight, query>>

SpecMatch == InitMatch /\ [][Match]_vars

(***************************************************************************)
(* run_queries alone, on a database and a sequence of queries              *)
(***************************************************************************)
Flight3 == FlightOf("BA117,LHR,RIX,2025-11-16 09:00,2025-11-16 12:00,75.50")

\* The empty query, a query on the origin and one nothing matches.
QueryNobody == "flight_id" :> PyStr("nobody")

RunQuerySamples == {<<>>, Query1, QueryNobody}

InitRun ==
  /\ pc = "run"
  /\ flights \in SeqsUpTo({Flight1, Flight2, Flight3}, MaxFlights)
  /\ queries \in SeqsUpTo(RunQuerySamples, MaxQueries)
  /\ errors = <<>> /\ response = <<>>
  /\ EnvIdle /\ ParseIdle /\ OutIdle /\ CallIdle

SpecRun == InitRun /\ [][RunQueries]_vars

(***************************************************************************)
(* Properties of main                                                      *)
(***************************************************************************)

\* C1: a run of main that ends in a fatal failure (source missing or
\* unreadable, database document that is not a list, query document that is
\* neither an object nor a list) has written no output artifact: no
\* errors.txt, no database JSON, no response file.
FatalFailureWritesNothing ==
  pc = "fatal" =>
     /\ errors_txt = NotWritten
     /\ db_json = NotWritten
     /\ response_json = NotWritten

\* C2: directory ingestion over a directory without any .csv file ends in a
\* fatal failure: it never returns the empty lists as a successful result
\* and main never writes a database file for it.
EmptyDirectoryIsFatal ==
  (args.source = "d" /\ src_ok /\ CsvFiles(DOMAIN files) = <<>>) =>
     /\ pc \notin {"parsed", "save", "query", "run", "done"}
     /\ db_json = NotWritten

(***************************************************************************)
(* Properties of validate_flight_row                                       *)
(***************************************************************************)
GoodRow ==
  <<"BA2490", "LHR", "JFK", "2025-11-14 10:30", "2025-11-14 13:05", "489.99">>

\* The six-field row f with the fields outside `keep` replaced by good ones.
Only(f, keep) == [i \in 1..6 |-> IF i \in keep THEN f[i] ELSE GoodRow[i]]

\* The reasons of each rule taken alone, in the order of the rules.
ReasonsRuleByRule(f) ==
  validate_flight_row(Only(f, {1})).errors
  \o validate_flight_row(Only(f, {2})).errors
  \o validate_flight_row(Only(f, {3})).errors
  \o validate_flight_row(Only(f, {4, 5})).errors
  \o validate_flight_row(Only(f, {6})).errors

\* C3: validate_flight_row returns (valid, a record, no reason) or (invalid,
\* no record, at least one reason).  For six fields the reasons are those of
\* every rule, each as it fires on its own fields whatever the other fields
\* hold, in the order flight_id, origin, destination, timestamps, price; for
\* any other number of fields they are exactly "missing required fields".
AllRulesCollected ==
  pc = "returned" =>
     /\ \/ /\ validated.is_valid
           /\ validated.record # PyNone
           /\ validated.errors = <<>>
        \/ /\ ~validated.is_valid
           /\ validated.record = PyNone
           /\ validated.errors # <<>>
     /\ Len(fields) # 6 => validated.errors = <<"missing required fields">>
     /\ Len(fields) = 6 => validated.errors = ReasonsRuleByRule(fields)

\* A six-field row that breaks four rules or more.
SeveralRulesFired ==
  pc = "returned" /\ Len(fields) = 6 /\ Len(validated.errors) >= 4

IsTimestampReason(m) ==
  m \in {"invalid date format", "invalid departure datetime",
         "invalid arrival datetime", "arrival before departure"}

\* The timestamp reasons `ts` for the parsed departure and arrival.
TimestampRule(dep_dt, arr_dt, ts) ==
  /\ (~dep_dt.ok /\ ~arr_dt.ok) => ts = <<"invalid date format">>
  /\ (~dep_dt.ok /\ arr_dt.ok) => ts = <<"invalid departure datetime">>
  /\ (dep_dt.ok /\ ~arr_dt.ok) => ts = <<"invalid arrival datetime">>
  /\ (dep_dt.ok /\ arr_dt.ok /\ ~DtLess(dep_dt, arr_dt)) =>
        ts = <<"arrival before departure">>
  /\ (dep_dt.ok /\ arr_dt.ok /\ DtLess(dep_dt, arr_dt)) => ts = <<>>

\* C8: for a six-field row the timestamp reasons are exactly "invalid date
\* format" when neither side parses, the message of the side when only one
\* fails, "arrival before departure" when both parse and the arrival is not
\* strictly later (equal included), and none when it is strictly later.
TimestampReasons ==
  (pc = "returned" /\ Len(fields) = 6) =>
     TimestampRule(Strptime(Strip(fields[4]), DATETIME_FORMAT),
                   Strptime(Strip(fields[5]), DATETIME_FORMAT),
                   SelectSeq(validated.errors, IsTimestampReason))

\* Equal departure and arrival, reported.
EqualTimestampsReported ==
  /\ pc = "returned"
  /\ Len(fields) = 6
  /\ fields[4] = "2025-11-14 10:30"
  /\ fields[5] = "2025-11-14 10:30"
  /\ SelectSeq(validated.errors, IsTimestampReason) = <<"arrival before departure">>

\* Six fields that are valid whatever the flight_id.
OtherwiseValid(f) == Len(f) = 6 /\ validate_flight_row(Only(f, {2, 3, 4, 5, 6})).is_valid

\* The flight_id is longer than 8 characters and alphanumeric.
LongAlnumId(f) == Len(Strip(f[1])) = 9 /\ IsAlnum(Strip(f[1]))

\* The flight_id is longer than 8 characters and holds another character.
LongSymbolId(f) == Len(Strip(f[1])) > 8 /\ ~IsAlnum(Strip(f[1]))

\* The outcomes of the two flight_id checks, `too_long` being the text of the
\* length reason.
FlightIdRule(f, errs, too_long) ==
  /\ (OtherwiseValid(f) /\ LongAlnumId(f)) => errs = <<too_long>>
  /\ (OtherwiseValid(f) /\ f[1] = "A$") => errs = <<"invalid flight_id">>
  /\ (OtherwiseValid(f) /\ LongSymbolId(f)) => errs = <<"invalid flight_id", too_long>>

\* C9, as stated: a 9-character alphanumeric flight_id in an otherwise valid
\* row yields only the reason "flight_id too long", the flight_id "A$" yields
\* only "invalid flight_id", and a longer id with a symbol yields both.
FlightIdChecksAsStated ==
  (pc = "returned" /\ Len(fields) = 6) =>
     FlightIdRule(fields, validated.errors, "flight_id too long")

\* C9, amended: the same outcomes, the length reason being the text
\* "flight_id too long (more than 8 characters)".
FlightIdChecksIndependent ==
  (pc = "returned" /\ Len(fields) = 6) =>
     FlightIdRule(fields, validated.errors,
                  "flight_id too long (more than 8 characters)")

\* A long flight_id with a symbol, both reasons given.
BothFlightIdReasons ==
  /\ pc = "returned"
  /\ OtherwiseValid(fields)
  /\ fields[1] = "ABCDEFG$HI"
  /\ Len(validated.errors) = 2

(***************************************************************************)
(* Properties of flight_matches_query                                      *)
(***************************************************************************)

\* The two sides of a bound both parse and the lower is not after the upper.
WithinBound(lower, upper) == lower.ok /\ upper.ok /\ ~DtLess(upper, lower)

\* Both prices are numbers and the flight's is <= the query's.
PriceWithin(f_price, q_price) ==
  f_price.kind # "err" /\ q_price.kind # "err" /\ FloatLe(f_price, q_price)

\* Every constraint the query holds is satisfied by the flight.
Satisfies(f, q) ==
  /\ \A key \in {"flight_id", "origin", "destination"} \cap DOMAIN q :
        StrOf(Get(f, key)) = StrOf(q[key])
  /\ "departure_datetime" \in DOMAIN q =>
        WithinBound(ParsedAt(q, "departure_datetime"),
                    ParsedAt(f, "departure_datetime"))
  /\ "arrival_datetime" \in DOMAIN q =>
        WithinBound(ParsedAt(f, "arrival_datetime"),
                    ParsedAt(q, "arrival_datetime"))
  /\ "price" \in DOMAIN q => PriceWithin(FloatAt(f, "price"), FloatAt(q, "price"))

\* C4: flight_matches_query is true iff every constraint present in the
\* query is satisfied: the three text fields equal, departure >= the query's,
\* arrival <= the query's, price <= the query's; absent and unknown keys
\* constrain nothing.
MatchIffEveryConstraint ==
  pc = "returned" => (matched <=> Satisfies(flight, query))

\* The flight holds a departure_datetime that does not parse.
DepartureUnparseable(f) ==
  "departure_datetime" \in DOMAIN f /\ ~ParsedAt(f, "departure_datetime").ok

\* C5, as stated: a flight whose departure_datetime does not parse matches
\* no query that holds departure_datetime or arrival_datetime.
UnparseableDepartureNeverMatches ==
  (/\ pc = "returned"
   /\ DepartureUnparseable(flight)
   /\ ("departure_datetime" \in DOMAIN query \/ "arrival_datetime" \in DOMAIN query))
  => ~matched

\* C5, amended: a flight whose departure_datetime does not parse matches no
\* query that holds departure_datetime.
UnparseableDepartureFailsDepartureQuery ==
  (/\ pc = "returned"
   /\ DepartureUnparseable(flight)
   /\ "departure_datetime" \in DOMAIN query)
  => ~matched

\* Such a flight, refused by a query on the departure alone.
DepartureQueryRefused ==
  /\ pc = "returned"
  /\ DepartureUnparseable(flight)
  /\ DOMAIN query = {"departure_datetime"}
  /\ ParsedAt(query, "departure_datetime").ok
  /\ ~matched

(***************************************************************************)
(* Properties of run_queries                                               *)
(***************************************************************************)

\* The positions of the flights the query is satisfied by.
Hits(db, q) == {j \in 1..Len(db) : flight_matches_query(db[j], q)}

\* The k-th position of the set of positions `hits`.
Kth(hits, k) == CHOOSE j \in hits : Cardinality({h \in hits : h <= j}) = k

\* `matches` holds the satisfying flights of db, in the order of db, each
\* as often as db holds it.
MatchesInOrder(db, q, matches) ==
  /\ Len(matches) = Cardinality(Hits(db, q))
  /\ \A k \in 1..Len(matches) : matches[k] = db[Kth(Hits(db, q), k)]

\* C6: run_queries returns one result per query, at the position of the
\* query (nothing merged, nothing left out); the matches of a result are the
\* flights satisfying its query, in database order with multiplicity; and
\* the call leaves the database as it was.
OneResultPerQuery ==
  /\ [](pc = "done" =>
          /\ Len(response) = Len(queries)
          /\ \A i \in 1..Len(queries) :
                /\ response[i].query = queries[i]
                /\ MatchesInOrder(flights, queries[i], response[i].matches))
  /\ [][flights' = flights]_vars

\* Twice the same query over twice the same flight, and a query nothing
\* matches.
RepeatedQueryAnswered ==
  /\ pc = "done"
  /\ Len(queries) = 2
  /\ Len(flights) = 2
  /\ flights[1] = flights[2]
  /\ \/ queries[1] = queries[2] /\ Len(response[2].matches) = 2
     \/ response[1].matches = <<>> /\ response[2].matches # <<>>

(***************************************************************************)
(* Properties of parse_csv_file and parse_directory                        *)
(***************************************************************************)
IsBlank(line) == Strip(line) = ""

IsComment(line) == ~IsBlank(line) /\ StartsWith(LStrip(line), "#")

\* The line cannot be split.
IsUnsplit(line) == ~IsBlank(line) /\ ~IsComment(line) /\ ~CsvRow(line).ok

\* The line splits into the header fields.
IsHeader(line) ==
  /\ ~IsBlank(line) /\ ~IsComment(line)
  /\ CsvRow(line).ok /\ is_header_row(CsvRow(line).row)

\* Line i is the first header line of `lines`.
FirstHeader(lines, i) ==
  IsHeader(lines[i]) /\ \A j \in 1..(i - 1) : ~IsHeader(lines[j])

\* What becomes of line i: nothing ("blank", "header"), a diagnostic
\* ("comment", "unsplit", "invalid") or a record.
LineKind(lines, i) ==
  IF IsBlank(lines[i]) THEN "blank"
  ELSE IF IsComment(lines[i]) THEN "comment"
  ELSE IF IsUnsplit(lines[i]) THEN "unsplit"
  ELSE IF FirstHeader(lines, i) THEN "header"
  ELSE IF validate_flight_row(CsvRow(lines[i]).row).is_valid THEN "record"
  ELSE "invalid"

\* How a diagnostic of line i of the source starts.
Numbered(name, i, single, line) ==
  (IF single THEN "" ELSE name \o " ") \o "Line " \o NatStr(i) \o ": "
  \o line \o " " \o Arrow \o " "

\* The diagnostic of line i of a source of a directory, if it has one.
DiagnosticOf(name, lines, i) ==
  CASE LineKind(lines, i) = "comment" ->
         <<Numbered(name, i, FALSE, lines[i])
           \o "comment line, ignored for data parsing">>
    [] LineKind(lines, i) = "unsplit" ->
         <<Numbered(name, i, FALSE, lines[i]) \o "could not parse CSV line">>
    [] LineKind(lines, i) = "invalid" ->
         <<Numbered(name, i, FALSE, lines[i])
           \o Join(validate_flight_row(CsvRow(lines[i]).row).errors)>>
    [] OTHER -> <<>>

RecordOf(lines, i) ==
  IF LineKind(lines, i) = "record"
  THEN <<validate_flight_row(CsvRow(lines[i]).row).record>> ELSE <<>>

\* The diagnostics and the records of the lines i.. of one source.
RECURSIVE DiagnosticsFrom(_, _, _)
DiagnosticsFrom(name, lines, i) ==
  IF i > Len(lines) THEN <<>>
  ELSE DiagnosticOf(name, lines, i) \o DiagnosticsFrom(name, lines, i + 1)

RECURSIVE RecordsFrom(_, _)
RecordsFrom(lines, i) ==
  IF i > Len(lines) THEN <<>>
  ELSE RecordOf(lines, i) \o RecordsFrom(lines, i + 1)

\* The .csv sources of the directory in ascending order of their names.
SourceOrder(dir) ==
  LET csv == {n \in DOMAIN dir : EndsWith(Lower(n), ".csv")}
  IN  CHOOSE order \in [1..Cardinality(csv) -> csv] :
        \A i, j \in 1..Cardinality(csv) : i < j => StrLess(order[i], order[j])

RECURSIVE CombinedDiagnostics(_, _)
CombinedDiagnostics(dir, order) ==
  IF Len(order) = 0 THEN <<>>
  ELSE DiagnosticsFrom(Head(order), dir[Head(order)], 1)
       \o CombinedDiagnostics(dir, Tail(order))

RECURSIVE CombinedRecords(_, _)
CombinedRecords(dir, order) ==
  IF Len(order) = 0 THEN <<>>
  ELSE RecordsFrom(dir[Head(order)], 1) \o CombinedRecords(dir, Tail(order))

\* C7: what directory ingestion returns is, for the diagnostics and for the
\* records, the outputs of the sources one after the other in ascending
\* order of the source names and, within a source, in the order of the lines;
\* a diagnostic carries the number of its line counted from 1 within its own
\* source, blank lines, comments and the header counted.
DirectoryOrder ==
  (pc = "parsed" /\ args.source = "d") =>
     /\ errors = CombinedDiagnostics(files, SourceOrder(files))
     /\ flights = CombinedRecords(files, SourceOrder(files))

\* Two sources, the one listed last sorted first, each with a diagnostic
\* (that of the first source at its line 2) and each with two different
\* records, the second source holding them in the opposite order.
TwoSourcesCombined ==
  /\ pc = "parsed"
  /\ DOMAIN files = {"A.CSV", "b.csv"}
  /\ Len(errors) >= 2
  /\ StartsWith(errors[1], "A.CSV Line 2: ")
  /\ StartsWith(errors[Len(errors)], "b.csv Line 1: ")
  /\ Flight1 # Flight2
  /\ RecordsFrom(files["A.CSV"], 1) = <<Flight2, Flight1>>
  /\ RecordsFrom(files["b.csv"], 1) = <<Flight1, Flight2>>
  /\ flights = <<Flight2, Flight1, Flight1, Flight2>>

\* Some diagnostic read so far is that of line i.
Reported(i) ==
  \E k \in 1..Len(error_lines) :
     StartsWith(error_lines[k], Numbered(path, i, single_file, files[path][i]))

\* C10: in the source being read the flag is set iff a header line has been
\* read; the first header line leaves no diagnostic and no record, every
\* later one leaves a diagnostic; the records are those of the valid data
\* lines only; and the flag, once set, stays set as long as the source is
\* the same.  (A new source starts with the flag cleared, so the first
\* header of each source is the one consumed.)
HeaderConsumedOnce ==
  /\ [](pc = "read" =>
          /\ seen_header <=> \E i \in 1..line_no : IsHeader(files[path][i])
          /\ \A i \in 1..line_no :
                IsHeader(files[path][i]) =>
                   (Reported(i) <=> ~FirstHeader(files[path], i))
          /\ Len(valid_records) =
               Cardinality({i \in 1..line_no : LineKind(files[path], i) = "record"})
          /\ Len(error_lines) =
               Cardinality({i \in 1..line_no :
                              LineKind(files[path], i) \in {"comment", "unsplit", "invalid"}}))
  /\ [][(seen_header /\ path' = path) => seen_header']_vars

\* The second source of a directory whose first source had a header: its
\* first header consumed, its second reported.
SecondHeaderReported ==
  /\ pc = "read"
  /\ path = "b.csv"
  /\ "A.CSV" \in DOMAIN files
  /\ Len(files["A.CSV"]) = 1
  /\ IsHeader(files["A.CSV"][1])
  /\ line_no = 2
  /\ IsHeader(files[path][1])
  /\ IsHeader(files[path][2])
  /\ seen_header
  /\ Len(error_lines) = 1
  /\ Reported(2)

====
